---- MODULE Spec2Model ----
(***************************************************************************)
(* Stock-risk derivation and alerting pipeline of streamlit_dashboard.py:  *)
(* the latest-snapshot selector, the per-row metric calculator and the     *)
(* alert classifier, run once per execution of the Streamlit script.       *)
(*                                                                         *)
(* The derived columns are pandas/numpy float64 columns.  They are         *)
(* modelled as IEEE-754 binary64 values (round to nearest, ties to even)   *)
(* over arbitrary-precision naturals, because the comparisons of the       *)
(* pipeline act on the rounded values.                                     *)
(***************************************************************************)
EXTENDS Integers, Sequences, FiniteSets, TLC

(***************************************************************************)
(* Arbitrary-precision naturals: little-endian sequences of limbs below    *)
(* Base, without high zero limbs (<<>> is zero).                           *)
(***************************************************************************)
Base == 2^15

Limb(a, i) == IF i <= Len(a) THEN a[i] ELSE 0

RECURSIVE BTrim(_)
BTrim(a) ==
    IF Len(a) = 0 THEN a
    ELSE IF a[Len(a)] = 0 THEN BTrim(SubSeq(a, 1, Len(a) - 1))
    ELSE a

RECURSIVE BFromNat(_)
BFromNat(n) == IF n = 0 THEN <<>> ELSE <<n % Base>> \o BFromNat(n \div Base)

RECURSIVE BAddFrom(_, _, _, _)
BAddFrom(a, b, i, c) ==
    IF i > Len(a) /\ i > Len(b)
    THEN (IF c = 0 THEN <<>> ELSE <<c>>)
    ELSE LET s == Limb(a, i) + Limb(b, i) + c
         IN  <<s % Base>> \o BAddFrom(a, b, i + 1, s \div Base)

BAdd(a, b) == BAddFrom(a, b, 1, 0)

RECURSIVE BSubFrom(_, _, _, _)
BSubFrom(a, b, i, c) ==
    IF i > Len(a) THEN <<>>
    ELSE LET s == a[i] - Limb(b, i) - c
         IN  IF s < 0
             THEN <<s + Base>> \o BSubFrom(a, b, i + 1, 1)
             ELSE <<s>> \o BSubFrom(a, b, i + 1, 0)

\* a - b for a >= b
BSub(a, b) == BTrim(BSubFrom(a, b, 1, 0))

RECURSIVE BCmpFrom(_, _, _)
BCmpFrom(a, b, i) ==
    IF i = 0 THEN 0
    ELSE IF a[i] < b[i] THEN -1
    ELSE IF a[i] > b[i] THEN 1
    ELSE BCmpFrom(a, b, i - 1)

\* -1, 0, 1 as a < b, a = b, a > b
BCmp(a, b) ==
    IF Len(a) < Len(b) THEN -1
    ELSE IF Len(a) > Len(b) THEN 1
    ELSE BCmpFrom(a, b, Len(a))

RECURSIVE BMulSmallFrom(_, _, _, _)
BMulSmallFrom(a, k, i, c) ==
    IF i > Len(a)
    THEN (IF c = 0 THEN <<>> ELSE <<c>>)
    ELSE LET s == a[i] * k + c
         IN  <<s % Base>> \o BMulSmallFrom(a, k, i + 1, s \div Base)

\* a * k for 0 <= k < Base
BMulSmall(a, k) == IF k = 0 THEN <<>> ELSE BMulSmallFrom(a, k, 1, 0)

Zeros(n) == [i \in 1..n |-> 0]

BShiftLimbs(a, n) == IF Len(a) = 0 THEN a ELSE Zeros(n) \o a

RECURSIVE BMulFrom(_, _, _)
BMulFrom(a, b, i) ==
    IF i > Len(b) THEN <<>>
    ELSE BAdd(BShiftLimbs(BMulSmall(a, b[i]), i - 1), BMulFrom(a, b, i + 1))

BMul(a, b) == BMulFrom(a, b, 1)

\* a * 2^n
BShl(a, n) == BShiftLimbs(BMulSmall(a, 2^(n % 15)), n \div 15)

RECURSIVE BDivSmallFrom(_, _, _, _)
BDivSmallFrom(a, k, i, r) ==
    IF i = 0 THEN <<>>
    ELSE LET s == r * Base + a[i]
         IN  BDivSmallFrom(a, k, i - 1, s % k) \o <<s \div k>>

\* floor(a / k) for 0 < k <= Base
BDivSmall(a, k) == BTrim(BDivSmallFrom(a, k, Len(a), 0))

\* floor(a / 2^n)
BShr(a, n) ==
    IF n \div 15 >= Len(a) THEN <<>>
    ELSE BDivSmall(SubSeq(a, (n \div 15) + 1, Len(a)), 2^(n % 15))

\* number of bits of a limb
LimbBits(x) == CHOOSE k \in 0..15 : x < 2^k /\ (k = 0 \/ x >= 2^(k - 1))

BBitLen(a) == IF Len(a) = 0 THEN 0 ELSE (Len(a) - 1) * 15 + LimbBits(a[Len(a)])

\* bit n (0 = least significant) of a
BBit(a, n) == (Limb(a, (n \div 15) + 1) \div 2^(n % 15)) % 2

\* a mod 2^n # 0
BLowNonZero(a, n) ==
    \/ \E i \in 1..Len(a) : i <= n \div 15 /\ a[i] # 0
    \/ Limb(a, (n \div 15) + 1) % 2^(n % 15) # 0

BOdd(a) == Len(a) > 0 /\ a[1] % 2 = 1

(***************************************************************************)
(* float64: a value is NaN or (-1)^neg * m * 2^e with m = 0 or m of        *)
(* exactly Prec bits.  The magnitudes of the model stay far inside the     *)
(* normal range, so infinities and subnormals do not arise.                *)
(***************************************************************************)
Prec == 53

NaN == [nan |-> TRUE, neg |-> FALSE, m |-> <<>>, e |-> 0]

FZero == [nan |-> FALSE, neg |-> FALSE, m |-> <<>>, e |-> 0]

\* the float64 nearest to (-1)^neg * (N + f) * 2^e, where 0 <= f < 1 and
\* sticky says f > 0; ties go to the even mantissa
FRound(neg, N, e, sticky) ==
    LET L == BBitLen(N) IN
    IF L = 0 THEN FZero
    ELSE IF L <= Prec
    THEN [nan |-> FALSE, neg |-> neg, m |-> BShl(N, Prec - L), e |-> e - (Prec - L)]
    ELSE LET sh    == L - Prec
             q     == BShr(N, sh)
             guard == BBit(N, sh - 1) = 1
             rest  == sticky \/ BLowNonZero(N, sh - 1)
             up    == guard /\ (rest \/ BOdd(q))
             q2    == IF up THEN BAdd(q, <<1>>) ELSE q
         IN  IF BBitLen(q2) > Prec
             THEN [nan |-> FALSE, neg |-> neg, m |-> BShr(q2, 1), e |-> e + sh + 1]
             ELSE [nan |-> FALSE, neg |-> neg, m |-> q2, e |-> e + sh]

\* int -> float64 (astype(float) of an integer column, or a literal)
FromInt(n) == FRound(n < 0, BFromNat(IF n < 0 THEN -n ELSE n), 0, FALSE)

\* one step of binary long division by D
DivStep(st, D) ==
    LET r2 == BAdd(st.r, st.r)
        ge == BCmp(r2, D) >= 0
    IN  [q |-> BAdd(BAdd(st.q, st.q), IF ge THEN <<1>> ELSE <<>>),
         r |-> IF ge THEN BSub(r2, D) ELSE r2]

DivStep5(st, D) == DivStep(DivStep(DivStep(DivStep(DivStep(st, D), D), D), D), D)

RECURSIVE DivLoop(_, _, _)
DivLoop(st, D, n) ==
    IF n = 0 THEN st
    ELSE LET s2 == DivStep5(st, D)
         IN  IF Len(s2.r) >= 0 THEN DivLoop(s2, D, n - 1) ELSE st

\* x / y for y # 0
FDiv(x, y) ==
    IF x.nan \/ y.nan THEN NaN
    ELSE IF Len(x.m) = 0 THEN FZero
    ELSE LET ge == BCmp(x.m, y.m) >= 0
             s0 == [q |-> IF ge THEN <<1>> ELSE <<>>,
                    r |-> IF ge THEN BSub(x.m, y.m) ELSE x.m]
             s  == DivLoop(s0, y.m, 11)
         IN  FRound(x.neg # y.neg, s.q, x.e - y.e - 55, Len(s.r) > 0)

FMul(x, y) ==
    IF x.nan \/ y.nan THEN NaN
    ELSE FRound(x.neg # y.neg, BMul(x.m, y.m), x.e + y.e, FALSE)

FNeg(x) == IF x.nan \/ Len(x.m) = 0 THEN x ELSE [x EXCEPT !.neg = ~x.neg]

FAbs(x) == [x EXCEPT !.neg = FALSE]

\* magnitudes of two non-zero floats on their common exponent
AlignE(x, y) == IF x.e < y.e THEN x.e ELSE y.e

AlignM(x, emin) == BShl(x.m, x.e - emin)

FAdd(x, y) ==
    IF x.nan \/ y.nan THEN NaN
    ELSE IF Len(x.m) = 0 THEN y
    ELSE IF Len(y.m) = 0 THEN x
    ELSE LET emin == AlignE(x, y)
             a    == AlignM(x, emin)
             b    == AlignM(y, emin)
             c    == BCmp(a, b)
         IN  IF x.neg = y.neg THEN FRound(x.neg, BAdd(a, b), emin, FALSE)
             ELSE IF c = 0 THEN FZero
             ELSE IF c > 0 THEN FRound(x.neg, BSub(a, b), emin, FALSE)
             ELSE FRound(y.neg, BSub(b, a), emin, FALSE)

FSub(x, y) == FAdd(x, FNeg(y))

\* -1, 0, 1 for two floats that are not NaN
FCmp(x, y) ==
    IF Len(x.m) = 0 /\ Len(y.m) = 0 THEN 0
    ELSE IF Len(x.m) = 0 THEN (IF y.neg THEN 1 ELSE -1)
    ELSE IF Len(y.m) = 0 THEN (IF x.neg THEN -1 ELSE 1)
    ELSE IF x.neg /\ ~y.neg THEN -1
    ELSE IF ~x.neg /\ y.neg THEN 1
    ELSE LET emin == AlignE(x, y)
             c    == BCmp(AlignM(x, emin), AlignM(y, emin))
         IN  IF x.neg THEN -c ELSE c

\* the comparisons of float64: every comparison with NaN is false
FLt(x, y) == ~x.nan /\ ~y.nan /\ FCmp(x, y) < 0

FGt(x, y) == ~x.nan /\ ~y.nan /\ FCmp(x, y) > 0

FGe(x, y) == ~x.nan /\ ~y.nan /\ FCmp(x, y) >= 0

FLe(x, y) == ~x.nan /\ ~y.nan /\ FCmp(x, y) <= 0

(***************************************************************************)
(* Inputs.  An inventory observation is a row of TB_INVENTORY:             *)
(* LOCATION, ITEM, DATE and the four numeric facts.                        *)
(***************************************************************************)
MaxRows == 2

Dates == 1..2

Pairs == <<(<<"Aceh", "RHZE">>), (<<"Aceh", "INH">>), (<<"Bali", "RHZE">>)>>

\* <<CLOSING_STOCK, TB_CASES_ACTIVE, LEAD_TIME_DAYS, TB_RISK_SCORE>> of the
\* rows of the multi-row frames: 13.3 days short, exactly 7 days short,
\* 36 days beyond the lead time, and no active cases
Profiles == <<(<<200, 900, 20, 8>>), (<<13, 30, 20, 6>>), (<<500, 300, 14, 6>>),
              (<<100, 0, 14, 9>>)>>

StockValues == {-5, 0, 13, 20, 23, 200, 500}

CasesValues == {-30, 0, 23, 30, 300, 900}

LeadValues == {14, 20, 30}

ScoreValues == {3, 8}

Obs(pair, date, n) ==
    [LOCATION |-> pair[1], ITEM |-> pair[2], DATE |-> date,
     CLOSING_STOCK |-> n[1], TB_CASES_ACTIVE |-> n[2],
     LEAD_TIME_DAYS |-> n[3], TB_RISK_SCORE |-> n[4]]

\* the observations of the multi-row frames, in a fixed enumeration
ObsUniverse ==
    [k \in 1..(Len(Pairs) * Cardinality(Dates) * Len(Profiles)) |->
        Obs(Pairs[((k - 1) \div (Cardinality(Dates) * Len(Profiles))) + 1],
            (((k - 1) \div Len(Profiles)) % Cardinality(Dates)) + 1,
            Profiles[((k - 1) % Len(Profiles)) + 1])]

RowUniverse ==
    {Obs(Pairs[1], 1, n) :
        n \in StockValues \X CasesValues \X LeadValues \X ScoreValues}

\* The frames of at most n rows of U, up to row order: the order of the
\* loaded rows reaches no step of the pipeline, because sort_values leaves
\* the order of rows with equal keys open.
Frames(U, n) ==
    UNION {{[i \in 1..k |-> U[f[i]]] :
               f \in {g \in [1..k -> 1..Len(U)] :
                         \A i \in 1..k : \A j \in 1..k : i < j => g[i] <= g[j]}} :
           k \in 0..n}

Thresholds == {8, 10}

Loaders == <<"load_inventory", "load_cascade", "load_providers", "load_depots">>

(***************************************************************************)
(* Row Metric Calculator: the derived columns, each computed from the      *)
(* columns the source reads.  np.where(c, a, b) is IF c THEN a ELSE b.      *)
(***************************************************************************)
\* fault variant: the case count validated by taking its magnitude
daily_need_magnitude(TB_CASES_ACTIVE) ==
    FDiv(FAbs(FromInt(TB_CASES_ACTIVE)), FromInt(30))

daily_need(TB_CASES_ACTIVE) == FDiv(FromInt(TB_CASES_ACTIVE), FromInt(30))

\* fault variant: the undefined value filled with 0
days_of_therapy_left_zero_filled(CLOSING_STOCK, dn) ==
    IF FGt(dn, FZero) THEN FDiv(FromInt(CLOSING_STOCK), dn) ELSE FZero

days_of_therapy_left(CLOSING_STOCK, dn) ==
    IF FGt(dn, FZero) THEN FDiv(FromInt(CLOSING_STOCK), dn) ELSE NaN

\* fault variant: the flag written as the negation of days >= lead
stock_risk_flag_negated_ge(days, LEAD_TIME_DAYS) == ~FGe(days, FromInt(LEAD_TIME_DAYS))

\* fault variant: <= in the flag
stock_risk_flag_le(days, LEAD_TIME_DAYS) == FLe(days, FromInt(LEAD_TIME_DAYS))

stock_risk_flag(days, LEAD_TIME_DAYS) == FLt(days, FromInt(LEAD_TIME_DAYS))

\* fault variant: the doubled score clamped to the 0-10 scale
programmatic_risk_clamped(flag, TB_RISK_SCORE) ==
    IF flag
    THEN (IF 2 * TB_RISK_SCORE > 10 THEN FromInt(10) ELSE FromInt(2 * TB_RISK_SCORE))
    ELSE FromInt(TB_RISK_SCORE)

programmatic_risk(flag, TB_RISK_SCORE) ==
    IF flag THEN FMul(FromInt(TB_RISK_SCORE), FromInt(2)) ELSE FromInt(TB_RISK_SCORE)

\* fault variant: the operands of the subtraction exchanged
days_until_stockout_vs_lead_reversed(days, LEAD_TIME_DAYS) ==
    FSub(FromInt(LEAD_TIME_DAYS), days)

\* fault variant: an undefined days_of_therapy_left read as 0
days_until_stockout_vs_lead_filled(days, LEAD_TIME_DAYS) ==
    FSub(IF days.nan THEN FZero ELSE days, FromInt(LEAD_TIME_DAYS))

\* fault variant: the lead time added instead of subtracted
days_until_stockout_vs_lead_added(days, LEAD_TIME_DAYS) ==
    FAdd(days, FromInt(LEAD_TIME_DAYS))

days_until_stockout_vs_lead(days, LEAD_TIME_DAYS) == FSub(days, FromInt(LEAD_TIME_DAYS))

\* fault variant: the 30-day safety buffer left out
suggested_reorder_qty_no_buffer(flag, dn, LEAD_TIME_DAYS) ==
    IF flag THEN FMul(dn, FromInt(LEAD_TIME_DAYS)) ELSE FZero

\* fault variant: np.nan as the value of the rows not at risk
suggested_reorder_qty_nan_filled(flag, dn, LEAD_TIME_DAYS) ==
    IF flag THEN FMul(dn, FromInt(LEAD_TIME_DAYS + 30)) ELSE NaN

suggested_reorder_qty(flag, dn, LEAD_TIME_DAYS) ==
    IF flag THEN FMul(dn, FromInt(LEAD_TIME_DAYS + 30)) ELSE FZero

\* the six derived columns of a row with numeric facts n
Derived(n) ==
    LET dn   == daily_need(n[2])
        days == days_of_therapy_left(n[1], dn)
        flag == stock_risk_flag(days, n[3])
    IN  [daily_need |-> dn,
         days_of_therapy_left |-> days,
         stock_risk_flag |-> flag,
         programmatic_risk |-> programmatic_risk(flag, n[4]),
         days_until_stockout_vs_lead |-> days_until_stockout_vs_lead(days, n[3]),
         suggested_reorder_qty |-> suggested_reorder_qty(flag, dn, n[3])]

NumericRows ==
    {n : n \in {Profiles[i] : i \in 1..Len(Profiles)}
                 \cup (StockValues \X CasesValues \X LeadValues \X ScoreValues)}

\* the column arithmetic, evaluated once per distinct numeric row
DerivedColumns == [n \in NumericRows |-> Derived(n)]

\* fault variant: the safety buffer added to the lead-time column in place
WithDerived_in_place(o) ==
    [o EXCEPT !.LEAD_TIME_DAYS = o.LEAD_TIME_DAYS + 30]
        @@ DerivedColumns[<<o.CLOSING_STOCK, o.TB_CASES_ACTIVE,
                            o.LEAD_TIME_DAYS, o.TB_RISK_SCORE>>]

WithDerived(o) ==
    o @@ DerivedColumns[<<o.CLOSING_STOCK, o.TB_CASES_ACTIVE,
                          o.LEAD_TIME_DAYS, o.TB_RISK_SCORE>>]

(***************************************************************************)
(* Data-frame operations.                                                  *)
(***************************************************************************)
\* the orders in which a sort can return the n rows of a frame
RowOrders ==
    [n \in 0..(MaxRows + 1) |->
        {p \in [1..n -> 1..n] : \A i \in 1..n : \A j \in 1..n : i # j => p[i] # p[j]}]

\* fault variant: the keys compared by magnitude
FloatKeyLe_magnitude(x, y) == y.nan \/ (~x.nan /\ FLe(FAbs(x), FAbs(y)))

\* NaN keys sort last
FloatKeyLe(x, y) == y.nan \/ (~x.nan /\ FLe(x, y))

\* fault variant: the frame is not sorted by DATE before the selection
KeyLe_date_ignored(by, a, b) == by # "DATE" => FloatKeyLe(a[by], b[by])

\* the order of two rows under the sort column
KeyLe(by, a, b) == IF by = "DATE" THEN a.DATE <= b.DATE ELSE FloatKeyLe(a[by], b[by])

\* fault variant: ascending=False
sort_values_descending(df, by) ==
    {[i \in 1..Len(df) |-> df[p[i]]] : p \in
        {q \in RowOrders[Len(df)] :
            \A i \in 1..(Len(df) - 1) : KeyLe(by, df[q[i + 1]], df[q[i]])}}

\* sort_values(by): the orders of df that are ascending in column by; rows
\* with equal keys come in an order the sort does not fix
sort_values(df, by) ==
    {[i \in 1..Len(df) |-> df[p[i]]] : p \in
        {q \in RowOrders[Len(df)] :
            \A i \in 1..(Len(df) - 1) : KeyLe(by, df[q[i]], df[q[i + 1]])}}

RECURSIVE Rows(_, _, _)
\* the rows of df at the positions of I, from position i on, in frame order
Rows(df, I, i) ==
    IF i > Len(df) THEN <<>>
    ELSE (IF i \in I THEN <<df[i]>> ELSE <<>>) \o Rows(df, I, i + 1)

\* fault variant: head(1), the first row of every group
groupby_head(df) ==
    Rows(df,
         {i \in 1..Len(df) :
             ~\E j \in 1..(i - 1) :
                 df[j].LOCATION = df[i].LOCATION /\ df[j].ITEM = df[i].ITEM},
         1)

\* groupby(["LOCATION", "ITEM"]).tail(1): the last row of every group, in
\* frame order
groupby_tail(df) ==
    Rows(df,
         {i \in 1..Len(df) :
             ~\E j \in (i + 1)..Len(df) :
                 df[j].LOCATION = df[i].LOCATION /\ df[j].ITEM = df[i].ITEM},
         1)

head(df, n) == SubSeq(df, 1, IF Len(df) < n THEN Len(df) ELSE n)

Column(df, c) == {df[i][c] : i \in 1..Len(df)}

\* fault variant: count() in place of nunique()
nunique_as_count(df, c) == Len(df)

\* df[c].nunique()
nunique(df, c) == Cardinality(Column(df, c))

RECURSIVE ColumnSum(_, _, _)
\* df[c].sum() of an integer column, from row i on
ColumnSum(df, c, i) == IF i > Len(df) THEN 0 ELSE df[i][c] + ColumnSum(df, c, i + 1)

(***************************************************************************)
(* State of one dashboard process.                                         *)
(***************************************************************************)
VARIABLES
    TB_INVENTORY,        \* the warehouse table the inventory query reads
    cached,              \* loaders whose result st.cache_data has memoized
    script,              \* "not_run", "ok" or "exception": the last script run
    inv_df,              \* the loaded inventory frame
    latest,              \* the latest snapshot with its derived columns
    selected_locations,  \* sidebar multiselect "Select Provinces"
    selected_items,      \* sidebar multiselect "Select TB Regimens"
    risk_threshold,      \* sidebar slider
    filtered_latest,     \* the snapshot rows that pass both filters
    high_risk_count,     \* KPI "High-Risk Pairs"
    stockout_count,      \* KPI "Critical Alerts"
    status_counts,       \* the three Stock Status counts
    alerts,              \* the Critical alert list
    severity_label,      \* the label of each alert card, in card order
    warnings,            \* the Warning list
    warning_cards,       \* the warning items that are displayed
    alert_export,        \* the exported table: header, then rows; <<>> if none
    notices,             \* the banners the Critical Alerts tab shows
    queries,             \* per loader, the queries the last run sent
    raised,              \* the loader whose exception ended the last run
    provinces_kpi,       \* KPI "Provinces"
    regimens_kpi,        \* KPI "TB Regimens"
    active_cases_kpi     \* KPI "Active Cases"

vars == <<TB_INVENTORY, cached, script, inv_df, latest, selected_locations,
          selected_items, risk_threshold, filtered_latest, high_risk_count,
          stockout_count, status_counts, alerts, severity_label, warnings,
          warning_cards, alert_export, notices, queries, raised,
          provinces_kpi, regimens_kpi, active_cases_kpi>>

(***************************************************************************)
(* Alert Classifier: the boolean masks and what is built from them.        *)
(***************************************************************************)
\* fault variant: <= 0 in the alert mask
alerts_mask_le(r) == FLe(r.days_until_stockout_vs_lead, FZero)

\* filtered_latest["days_until_stockout_vs_lead"] < 0
alerts_mask(r) == FLt(r.days_until_stockout_vs_lead, FZero)

\* fault variant: the warning mask without its first conjunct
warnings_mask_flag_only(r) == r.stock_risk_flag

\* (days_until_stockout_vs_lead >= 0) & stock_risk_flag
warnings_mask(r) == FGe(r.days_until_stockout_vs_lead, FZero) /\ r.stock_risk_flag

\* the float64 of the integer literals and slider values
IntFloat == [i \in 0..10 |-> FromInt(i)]

StatusCounts(fl) ==
    LET Critical(r) == FLt(r.days_until_stockout_vs_lead, FZero)
        Warning(r)  == FGe(r.days_until_stockout_vs_lead, FZero) /\ r.stock_risk_flag
        Adequate(r) == ~r.stock_risk_flag
    IN  [Critical |-> Len(SelectSeq(fl, Critical)),
         Warning  |-> Len(SelectSeq(fl, Warning)),
         Adequate |-> Len(SelectSeq(fl, Adequate))]

\* fault variant: the threshold applied to the base score
HighRiskCount_base_score(fl, rt) ==
    LET Mask(r) == r.TB_RISK_SCORE >= rt IN Len(SelectSeq(fl, Mask))

HighRiskCount(fl, rt) ==
    LET Mask(r) == FGe(r.programmatic_risk, IntFloat[rt]) IN Len(SelectSeq(fl, Mask))

\* fault variant: the count written as the negation of >= 0
StockoutCount_negated_ge(fl) ==
    LET Mask(r) == ~FGe(r.days_until_stockout_vs_lead, FZero) IN Len(SelectSeq(fl, Mask))

StockoutCount(fl) ==
    LET Mask(r) == FLt(r.days_until_stockout_vs_lead, FZero) IN Len(SelectSeq(fl, Mask))

\* fault variant: >= 7 in the severity label
SeverityLabel_ge(r) ==
    LET days_short == FAbs(r.days_until_stockout_vs_lead)
    IN  IF FGe(days_short, IntFloat[7]) THEN "CRITICAL" ELSE "URGENT"

SeverityLabel(r) ==
    LET days_short == FAbs(r.days_until_stockout_vs_lead)
    IN  IF FGt(days_short, IntFloat[7]) THEN "CRITICAL" ELSE "URGENT"

\* fault variant: the two isin masks joined by | instead of &
FilteredLatest_either(lat, sl, si) ==
    LET Mask(r) == r.LOCATION \in sl \/ r.ITEM \in si IN SelectSeq(lat, Mask)

\* fault variant: an empty multiselect read as "no filter"
FilteredLatest_empty_is_all(lat, sl, si) ==
    LET Mask(r) == (sl = {} \/ r.LOCATION \in sl) /\ (si = {} \/ r.ITEM \in si)
    IN  SelectSeq(lat, Mask)

\* latest[LOCATION.isin(selected_locations) & ITEM.isin(selected_items)]
FilteredLatest(lat, sl, si) ==
    LET Mask(r) == r.LOCATION \in sl /\ r.ITEM \in si IN SelectSeq(lat, Mask)

\* alert_export.columns
AlertExportColumns ==
    <<"Province", "Treatment Regimen", "Current Stock", "Active Cases",
      "Lead Time (Days)", "Supply Days Left", "Shortfall (Days)",
      "TB Risk Score", "Programmatic Risk", "Recommended Order Quantity">>

\* fault variant: the two day columns selected in the other order
ExportRow_days_swapped(r) ==
    <<r.LOCATION, r.ITEM, r.CLOSING_STOCK, r.TB_CASES_ACTIVE, r.LEAD_TIME_DAYS,
      r.days_until_stockout_vs_lead, r.days_of_therapy_left, r.TB_RISK_SCORE,
      r.programmatic_risk, r.suggested_reorder_qty>>

\* one row of alerts[[...the ten columns...]]
ExportRow(r) ==
    <<r.LOCATION, r.ITEM, r.CLOSING_STOCK, r.TB_CASES_ACTIVE, r.LEAD_TIME_DAYS,
      r.days_of_therapy_left, r.days_until_stockout_vs_lead, r.TB_RISK_SCORE,
      r.programmatic_risk, r.suggested_reorder_qty>>

\* the table is built, shown and offered for download only in the else
\* branch of alerts.empty
AlertExport(al) ==
    IF Len(al) = 0 THEN <<>>
    ELSE <<AlertExportColumns>> \o [k \in 1..Len(al) |-> ExportRow(al[k])]

\* the banner of the alerts.empty branch taken and, when warnings.empty,
\* the st.info line
Notices(al, w) ==
    {IF Len(al) = 0 THEN "All Stock Levels Adequate" ELSE "CRITICAL ALERT"}
        \cup (IF Len(w) = 0 THEN {"No items currently in warning threshold range"}
              ELSE {})

\* the snapshots the selection can produce from a frame
Latest(df) ==
    {[i \in 1..Len(g) |-> WithDerived(g[i])] :
        g \in {groupby_tail(sorted) : sorted \in sort_values(df, "DATE")}}

(***************************************************************************)
(* One execution of the script from the loaded frame df on: snapshot,      *)
(* sidebar, filter, KPIs, status counts, alert and warning lists.  With    *)
(* defaults the multiselects take all their options.  The sorts are        *)
(* deterministic algorithms: a rerun that sorts the same rows as the run   *)
(* before it gets the same order, so a rerun, which reads the same cached  *)
(* frame, computes the snapshot of the run before it.                      *)
(***************************************************************************)
Render(df, defaults, sl, si, rt) ==
    \E lat \in (IF defaults THEN Latest(df) ELSE {latest}) :
        LET sl2 == IF defaults THEN Column(lat, "LOCATION") ELSE sl
            si2 == IF defaults THEN Column(lat, "ITEM") ELSE si
            fl  == FilteredLatest(lat, sl2, si2)
            same == ~defaults /\ fl = filtered_latest
        IN  /\ latest' = lat
            /\ provinces_kpi' = nunique(df, "LOCATION")
            /\ regimens_kpi' = nunique(df, "ITEM")
            /\ active_cases_kpi' = ColumnSum(lat, "TB_CASES_ACTIVE", 1)
            /\ selected_locations' = sl2
            /\ selected_items' = si2
            /\ risk_threshold' = rt
            /\ filtered_latest' = fl
            /\ high_risk_count' = HighRiskCount(fl, rt)
            /\ stockout_count' = StockoutCount(fl)
            /\ status_counts' = StatusCounts(fl)
            /\ \E al \in sort_values(SelectSeq(fl, alerts_mask), "days_until_stockout_vs_lead") :
                  /\ same => al = alerts
                  /\ alerts' = al
                  /\ severity_label' = [i \in 1..Len(al) |-> SeverityLabel(al[i])]
                  /\ alert_export' = AlertExport(al)
                  /\ \E w \in sort_values(SelectSeq(fl, warnings_mask),
                                          "days_of_therapy_left") :
                        /\ same => w = warnings
                        /\ warnings' = w
                        /\ warning_cards' = head(w, 10)
                        /\ notices' = Notices(al, w)

NoOutput ==
    /\ latest = <<>>
    /\ selected_locations = {}
    /\ selected_items = {}
    /\ risk_threshold = 8
    /\ filtered_latest = <<>>
    /\ high_risk_count = 0
    /\ stockout_count = 0
    /\ status_counts = [Critical |-> 0, Warning |-> 0, Adequate |-> 0]
    /\ alerts = <<>>
    /\ severity_label = <<>>
    /\ warnings = <<>>
    /\ warning_cards = <<>>
    /\ alert_export = <<>>
    /\ notices = {}
    /\ provinces_kpi = 0
    /\ regimens_kpi = 0
    /\ active_cases_kpi = 0

outputs == <<latest, selected_locations, selected_items, risk_threshold,
             filtered_latest, high_risk_count, stockout_count, status_counts,
             alerts, severity_label, warnings, warning_cards, alert_export,
             notices, provinces_kpi, regimens_kpi, active_cases_kpi>>

\* no loader has been called
NoQueries == [l \in {Loaders[j] : j \in 1..Len(Loaders)} |-> 0]

\* fault variant: no st.cache_data, every loader call up to k is a query
LoadData_not_memoized(k) ==
    [l \in {Loaders[j] : j \in 1..Len(Loaders)} |->
        IF l \in {Loaders[j] : j \in 1..k} THEN 1 ELSE 0]

\* Load Data up to loader k: every loader up to k that st.cache_data has not
\* memoized runs its query once, the others are answered from the cache
LoadData(k) ==
    [l \in {Loaders[j] : j \in 1..Len(Loaders)} |->
        IF l \notin cached /\ l \in {Loaders[j] : j \in 1..k} THEN 1 ELSE 0]

Start(frames) ==
    /\ TB_INVENTORY \in frames
    /\ cached = {}
    /\ script = "not_run"
    /\ inv_df = <<>>
    /\ queries = NoQueries
    /\ raised = "none"
    /\ NoOutput

Init == Start(Frames(ObsUniverse, MaxRows))

\* one observation with any numeric facts
InitRow == Start({<<o>> : o \in RowUniverse})

\* fault variant: the exception of loader k caught and the run continued on
\* what has been loaded
LoadFails_caught(k) ==
    /\ script \in {"not_run", "exception"}
    /\ Loaders[k] \notin cached
    /\ cached' = cached \cup {Loaders[j] : j \in 1..(k - 1)}
    /\ inv_df' = IF k > 1 THEN TB_INVENTORY ELSE inv_df
    /\ queries' = LoadData(k)
    /\ raised' = "none"
    /\ script' = "ok"
    /\ Render(IF k > 1 THEN TB_INVENTORY ELSE inv_df, TRUE, {}, {}, 8)
    /\ UNCHANGED TB_INVENTORY

\* A run in which loader k raises: the loaders before it have returned and
\* are memoized, the exception ends the run before anything is computed.
LoadFails(k) ==
    /\ script \in {"not_run", "exception"}
    /\ Loaders[k] \notin cached
    /\ cached' = cached \cup {Loaders[j] : j \in 1..(k - 1)}
    /\ inv_df' = IF k > 1 THEN TB_INVENTORY ELSE inv_df
    /\ queries' = LoadData(k)
    /\ raised' = Loaders[k]
    /\ script' = "exception"
    /\ UNCHANGED <<TB_INVENTORY, outputs>>

\* The first run in which all four loaders return.
FirstRender ==
    /\ script \in {"not_run", "exception"}
    /\ cached' = {Loaders[j] : j \in 1..Len(Loaders)}
    /\ inv_df' = TB_INVENTORY
    /\ queries' = LoadData(Len(Loaders))
    /\ raised' = "none"
    /\ script' = "ok"
    /\ Render(TB_INVENTORY, TRUE, {}, {}, 8)
    /\ UNCHANGED TB_INVENTORY

\* Reruns caused by a widget change; every loader is answered from the cache.
SelectProvinces(P) ==
    /\ script = "ok"
    /\ P # selected_locations
    /\ Render(inv_df, FALSE, P, selected_items, risk_threshold)
    /\ queries' = LoadData(Len(Loaders))
    /\ UNCHANGED <<TB_INVENTORY, cached, script, inv_df, raised>>

SelectRegimens(I) ==
    /\ script = "ok"
    /\ I # selected_items
    /\ Render(inv_df, FALSE, selected_locations, I, risk_threshold)
    /\ queries' = LoadData(Len(Loaders))
    /\ UNCHANGED <<TB_INVENTORY, cached, script, inv_df, raised>>

SetRiskThreshold(t) ==
    /\ script = "ok"
    /\ t # risk_threshold
    /\ Render(inv_df, FALSE, selected_locations, selected_items, t)
    /\ queries' = LoadData(Len(Loaders))
    /\ UNCHANGED <<TB_INVENTORY, cached, script, inv_df, raised>>

Next ==
    \/ \E k \in 1..Len(Loaders) : LoadFails(k)
    \/ FirstRender
    \/ \E P \in SUBSET Column(latest, "LOCATION") : SelectProvinces(P)
    \/ \E I \in SUBSET Column(latest, "ITEM") : SelectRegimens(I)
    \/ \E t \in Thresholds : SetRiskThreshold(t)

Spec == Init /\ [][Next]_vars

SpecRow == InitRow /\ [][Next]_vars

\* the observations of one date whose stock falls short of the lead time
TieUniverse ==
    LET Short(o) == o.DATE = 1 /\ o.TB_CASES_ACTIVE > 0 /\ o.CLOSING_STOCK <= 200
    IN  SelectSeq(ObsUniverse, Short)

\* frames with room for two rows of equal shortfall in one province and a
\* row of another province
InitTies == Start(Frames(TieUniverse, MaxRows + 1))

SpecTies == InitTies /\ [][Next]_vars

(***************************************************************************)
(* Properties.                                                             *)
(***************************************************************************)
InFrame(df, r) == \E i \in 1..Len(df) : df[i] = r

\* the seven raw fields of a snapshot row
Raw(r) ==
    [LOCATION |-> r.LOCATION, ITEM |-> r.ITEM, DATE |-> r.DATE,
     CLOSING_STOCK |-> r.CLOSING_STOCK, TB_CASES_ACTIVE |-> r.TB_CASES_ACTIVE,
     LEAD_TIME_DAYS |-> r.LEAD_TIME_DAYS, TB_RISK_SCORE |-> r.TB_RISK_SCORE]

SamePair(a, b) == a.LOCATION = b.LOCATION /\ a.ITEM = b.ITEM

\* a defined number below 0; a defined number not below 0
Negative(x) == ~x.nan /\ x.neg /\ Len(x.m) > 0

NonNegative(x) == ~x.nan /\ (~x.neg \/ Len(x.m) = 0)

IsCritical(r) == Negative(r.days_until_stockout_vs_lead)

IsWarning(r) == NonNegative(r.days_until_stockout_vs_lead) /\ r.stock_risk_flag

IsAdequate(r) == ~r.stock_risk_flag

\* C1: every snapshot row with tb_cases_active = 0 has stock_risk_flag false
\* and suggested_reorder_qty 0, whatever its stock, lead time and risk score.
C1_ZeroConsumption ==
    \A i \in 1..Len(latest) :
        latest[i].TB_CASES_ACTIVE = 0 =>
            /\ ~latest[i].stock_risk_flag
            /\ latest[i].suggested_reorder_qty = FZero

C1_Witness ==
    /\ script = "ok"
    /\ \E i \in 1..Len(latest) :
          /\ latest[i].TB_CASES_ACTIVE = 0
          /\ latest[i].CLOSING_STOCK = 0
          /\ latest[i].suggested_reorder_qty = FZero

\* C2: every row of the filtered snapshot is in exactly one of Critical,
\* Warning and Adequate, and the three Stock Status counts are the sizes of
\* the three classes, so they sum to the number of filtered rows.
C2_Partition ==
    /\ \A i \in 1..Len(filtered_latest) :
          LET c == IsCritical(filtered_latest[i])
              w == IsWarning(filtered_latest[i])
              a == IsAdequate(filtered_latest[i])
          IN  (c \/ w \/ a) /\ ~(c /\ w) /\ ~(c /\ a) /\ ~(w /\ a)
    /\ status_counts.Critical =
          Cardinality({i \in 1..Len(filtered_latest) : IsCritical(filtered_latest[i])})
    /\ status_counts.Warning =
          Cardinality({i \in 1..Len(filtered_latest) : IsWarning(filtered_latest[i])})
    /\ status_counts.Adequate =
          Cardinality({i \in 1..Len(filtered_latest) : IsAdequate(filtered_latest[i])})
    /\ status_counts.Critical + status_counts.Warning + status_counts.Adequate
          = Len(filtered_latest)

C2_Witness ==
    /\ script = "ok"
    /\ Len(filtered_latest) = 2
    /\ Len(latest) = 2
    /\ status_counts.Critical = 1
    /\ status_counts.Adequate = 1
    /\ \E i \in 1..2 : ~filtered_latest[i].days_of_therapy_left.nan
                       /\ IsAdequate(filtered_latest[i])

\* C3: the snapshot has exactly one row for every (location, item) pair of
\* the input and no other row; the row is one of the pair's observations and
\* carries the pair's maximum date, also when several share that date.
C3_LatestSnapshot ==
    script = "ok" =>
        /\ \A j \in 1..Len(inv_df) :
              Cardinality({i \in 1..Len(latest) : SamePair(latest[i], inv_df[j])}) = 1
        /\ \A i \in 1..Len(latest) :
              /\ InFrame(inv_df, Raw(latest[i]))
              /\ \A k \in 1..Len(inv_df) :
                    SamePair(inv_df[k], latest[i]) => inv_df[k].DATE <= latest[i].DATE

C3_Witness ==
    /\ script = "ok"
    /\ Len(inv_df) = 2
    /\ inv_df[1] # inv_df[2]
    /\ SamePair(inv_df[1], inv_df[2])
    /\ inv_df[1].DATE = inv_df[2].DATE
    /\ Len(latest) = 1

\* C4: a snapshot row is in the Critical alert list iff its
\* days_until_stockout_vs_lead is defined and below 0 (0 itself is not) and
\* its province and regimen are selected; the list holds nothing else.
C4_CriticalList ==
    /\ \A i \in 1..Len(latest) :
          InFrame(alerts, latest[i]) <=>
              /\ Negative(latest[i].days_until_stockout_vs_lead)
              /\ latest[i].LOCATION \in selected_locations
              /\ latest[i].ITEM \in selected_items
    /\ \A k \in 1..Len(alerts) :
          /\ InFrame(latest, alerts[k])
          /\ \A l \in 1..Len(alerts) : alerts[l] = alerts[k] => l = k

C4_Witness ==
    /\ script = "ok"
    /\ alerts = <<>>
    /\ \E i \in 1..Len(filtered_latest) :
          filtered_latest[i].days_until_stockout_vs_lead = FZero

\* C5: an alert card is labelled CRITICAL when the magnitude of its
\* days_until_stockout_vs_lead is above 7 and URGENT when it is 7 or less.
C5_SeverityBoundary ==
    /\ Len(severity_label) = Len(alerts)
    /\ \A k \in 1..Len(alerts) :
          LET mag == FAbs(alerts[k].days_until_stockout_vs_lead)
          IN  /\ ~mag.nan
              /\ FCmp(mag, IntFloat[7]) > 0 => severity_label[k] = "CRITICAL"
              /\ FCmp(mag, IntFloat[7]) <= 0 => severity_label[k] = "URGENT"

C5_Witness ==
    /\ \E k \in 1..Len(alerts) :
          /\ FAbs(alerts[k].days_until_stockout_vs_lead) = IntFloat[7]
          /\ severity_label[k] = "URGENT"
    /\ \E k \in 1..Len(alerts) : severity_label[k] = "CRITICAL"

\* C6: a row of the filtered snapshot is in the Warning list iff its
\* days_until_stockout_vs_lead is at least 0 and its stock_risk_flag is set,
\* and the Warning count is the number of such rows.
C6_WarningTier ==
    /\ \A i \in 1..Len(filtered_latest) :
          InFrame(warnings, filtered_latest[i]) <=> IsWarning(filtered_latest[i])
    /\ \A k \in 1..Len(warnings) : InFrame(filtered_latest, warnings[k])
    /\ status_counts.Warning =
          Cardinality({i \in 1..Len(filtered_latest) : IsWarning(filtered_latest[i])})

C6_Witness ==
    /\ script = "ok"
    /\ warnings = <<>>
    /\ \E i \in 1..Len(filtered_latest) :
          /\ NonNegative(filtered_latest[i].days_until_stockout_vs_lead)
          /\ ~filtered_latest[i].stock_risk_flag
    /\ \E i \in 1..Len(filtered_latest) :
          /\ filtered_latest[i].stock_risk_flag
          /\ Negative(filtered_latest[i].days_until_stockout_vs_lead)

Undefined(df) == {i \in 1..Len(df) : df[i].days_of_therapy_left.nan}

\* C7: days_of_therapy_left is undefined exactly for the rows whose
\* daily_need is not above 0; such a row has an undefined
\* days_until_stockout_vs_lead, is in neither the Critical nor the Warning
\* list and is counted as Adequate.
C7_UndefinedMetric ==
    /\ \A i \in 1..Len(latest) :
          latest[i].days_of_therapy_left.nan <=> latest[i].TB_CASES_ACTIVE <= 0
    /\ \A i \in Undefined(filtered_latest) :
          /\ filtered_latest[i].days_until_stockout_vs_lead.nan
          /\ ~InFrame(alerts, filtered_latest[i])
          /\ ~InFrame(warnings, filtered_latest[i])
          /\ IsAdequate(filtered_latest[i])
    /\ status_counts.Adequate >= Cardinality(Undefined(filtered_latest))
    /\ status_counts.Critical + status_counts.Warning
          <= Len(filtered_latest) - Cardinality(Undefined(filtered_latest))

C7_Witness ==
    /\ script = "ok"
    /\ Cardinality(Undefined(filtered_latest)) = 1
    /\ Len(filtered_latest) = 2
    /\ Len(alerts) = 1
    /\ status_counts.Adequate = 1

\* | d * c - 30 * s | <= 2^-51 * | 30 * s |: d is the real quotient
\* s / (c / 30) up to the rounding of the two float64 divisions
WithinRounding(d, s, c) ==
    IF s = 0 THEN d = FZero
    ELSE /\ ~d.nan
         /\ d.neg = (s < 0)
         /\ d.e <= 0
         /\ LET A    == BMul(d.m, BFromNat(c))
                B    == BShl(BFromNat(30 * (IF s < 0 THEN -s ELSE s)), -d.e)
                diff == IF BCmp(A, B) >= 0 THEN BSub(A, B) ELSE BSub(B, A)
            IN  BCmp(BShl(diff, 51), B) <= 0

\* C8: for a row with daily_need > 0, days_of_therapy_left is the float64
\* quotient closing_stock / (tb_cases_active / 30.0), which is the real
\* quotient up to rounding; for a row with daily_need <= 0 it is undefined,
\* neither 0 nor an infinity.
C8_DaysOfTherapyLeft ==
    \A i \in 1..Len(latest) :
        LET r == latest[i] IN
        /\ r.daily_need = FDiv(FromInt(r.TB_CASES_ACTIVE), FromInt(30))
        /\ r.TB_CASES_ACTIVE > 0 =>
              /\ r.days_of_therapy_left = FDiv(FromInt(r.CLOSING_STOCK), r.daily_need)
              /\ WithinRounding(r.days_of_therapy_left, r.CLOSING_STOCK, r.TB_CASES_ACTIVE)
        /\ r.TB_CASES_ACTIVE <= 0 => r.days_of_therapy_left = NaN

C8_Witness ==
    /\ script = "ok"
    /\ \E i \in 1..Len(latest) :
          /\ latest[i].TB_CASES_ACTIVE = 900
          /\ latest[i].CLOSING_STOCK = 200
          /\ ~latest[i].days_of_therapy_left.nan
          /\ FCmp(latest[i].days_of_therapy_left, IntFloat[6]) > 0
          /\ FCmp(latest[i].days_of_therapy_left, IntFloat[7]) < 0

\* C9: stock_risk_flag is true exactly when days_of_therapy_left is defined
\* and below lead_time_days, which for daily_need > 0 is
\* closing_stock * 30 < lead_time_days * tb_cases_active; it is false when
\* days_of_therapy_left equals lead_time_days or is undefined.
C9_StockRiskFlag ==
    \A i \in 1..Len(latest) :
        LET r    == latest[i]
            lead == FromInt(r.LEAD_TIME_DAYS)
        IN  /\ r.stock_risk_flag <=>
                  (~r.days_of_therapy_left.nan /\ FCmp(r.days_of_therapy_left, lead) < 0)
            /\ r.TB_CASES_ACTIVE > 0 =>
                  (r.stock_risk_flag <=>
                      r.CLOSING_STOCK * 30 < r.LEAD_TIME_DAYS * r.TB_CASES_ACTIVE)
            /\ (r.days_of_therapy_left.nan \/ r.days_of_therapy_left = lead) =>
                  ~r.stock_risk_flag

\* C10: programmatic_risk is tb_risk_score * 2 for a flagged row and
\* tb_risk_score for any other row, with no clamp at 10.
C10_ProgrammaticRisk ==
    \A i \in 1..Len(latest) :
        /\ latest[i].stock_risk_flag =>
              latest[i].programmatic_risk = FromInt(2 * latest[i].TB_RISK_SCORE)
        /\ ~latest[i].stock_risk_flag =>
              latest[i].programmatic_risk = FromInt(latest[i].TB_RISK_SCORE)

C10_Witness ==
    /\ script = "ok"
    /\ \E i \in 1..Len(latest) :
          /\ latest[i].stock_risk_flag
          /\ latest[i].TB_RISK_SCORE = 8
          /\ latest[i].programmatic_risk = FromInt(16)
          /\ FCmp(latest[i].programmatic_risk, IntFloat[10]) > 0

\* | d * den - num | <= 2^-51 * num, for num > 0 and den > 0: d is the real
\* quotient num / den up to the rounding of two float64 operations
NearRatio(d, num, den) ==
    /\ ~d.nan
    /\ ~d.neg
    /\ d.e <= 0
    /\ LET A    == BMul(d.m, BFromNat(den))
           B    == BShl(BFromNat(num), -d.e)
           diff == IF BCmp(A, B) >= 0 THEN BSub(A, B) ELSE BSub(B, A)
       IN  BCmp(BShl(diff, 51), B) <= 0

\* C11: for a flagged row suggested_reorder_qty is the float64 product
\* daily_need * (lead_time_days + 30), the real tb_cases_active *
\* (lead_time_days + 30) / 30 up to rounding; for any other row it is the
\* number 0.  900 cases, 200 units, lead 20 is flagged and gives 1500;
\* 300 cases, 500 units, lead 14 is not flagged and gives 0.
C11_ReorderQuantity ==
    \A i \in 1..Len(latest) :
        LET r == latest[i] IN
        /\ r.stock_risk_flag =>
              /\ r.suggested_reorder_qty =
                     FMul(r.daily_need, FromInt(r.LEAD_TIME_DAYS + 30))
              /\ NearRatio(r.suggested_reorder_qty,
                           r.TB_CASES_ACTIVE * (r.LEAD_TIME_DAYS + 30), 30)
        /\ ~r.stock_risk_flag => r.suggested_reorder_qty = FZero
        /\ (r.TB_CASES_ACTIVE = 900 /\ r.CLOSING_STOCK = 200 /\ r.LEAD_TIME_DAYS = 20) =>
              r.stock_risk_flag /\ r.suggested_reorder_qty = FromInt(1500)
        /\ (r.TB_CASES_ACTIVE = 300 /\ r.CLOSING_STOCK = 500 /\ r.LEAD_TIME_DAYS = 14) =>
              ~r.stock_risk_flag /\ r.suggested_reorder_qty = FZero

C11_Witness ==
    /\ script = "ok"
    /\ \E i \in 1..Len(latest) :
          /\ latest[i].TB_CASES_ACTIVE = 900
          /\ latest[i].CLOSING_STOCK = 200
          /\ latest[i].LEAD_TIME_DAYS = 20
          /\ latest[i].stock_risk_flag
          /\ latest[i].suggested_reorder_qty = FromInt(1500)

\* the float64 nearest to the real difference d - L of a float d, not NaN
\* and of exponent at most 0, and an integer L > 0
ExactDifference(d, L) ==
    IF Len(d.m) = 0 THEN FromInt(-L)
    ELSE LET A == d.m
             B == BShl(BFromNat(L), -d.e)
         IN  IF d.neg THEN FRound(TRUE, BAdd(A, B), d.e, FALSE)
             ELSE IF BCmp(A, B) >= 0 THEN FRound(FALSE, BSub(A, B), d.e, FALSE)
             ELSE FRound(TRUE, BSub(B, A), d.e, FALSE)

\* C12: days_until_stockout_vs_lead is undefined exactly when
\* days_of_therapy_left is undefined, and otherwise it is the difference
\* days_of_therapy_left - lead_time_days (rounded to float64): below 0, 0
\* or above 0 as days_of_therapy_left is below, at or above the lead time.
C12_DaysUntilStockoutVsLead ==
    \A i \in 1..Len(latest) :
        LET r    == latest[i]
            days == r.days_of_therapy_left
            dusl == r.days_until_stockout_vs_lead
            lead == FromInt(r.LEAD_TIME_DAYS)
        IN  /\ dusl.nan <=> days.nan
            /\ ~days.nan =>
                  /\ days.e <= 0
                  /\ dusl = ExactDifference(days, r.LEAD_TIME_DAYS)
                  /\ FCmp(dusl, FZero) = FCmp(days, lead)

C12_Witness ==
    /\ script = "ok"
    /\ \E i \in 1..Len(latest) :
          /\ latest[i].CLOSING_STOCK = 500
          /\ latest[i].TB_CASES_ACTIVE = 300
          /\ latest[i].LEAD_TIME_DAYS = 14
          /\ latest[i].days_of_therapy_left = FromInt(50)
          /\ latest[i].days_until_stockout_vs_lead = FromInt(36)

\* C13: the Critical alert list is ascending in days_until_stockout_vs_lead,
\* so the largest shortfall comes first; the cards and the rows of the
\* export table come in the order of the list.
C13_AlertsAscending ==
    /\ \A k \in 1..(Len(alerts) - 1) :
          FCmp(alerts[k].days_until_stockout_vs_lead,
               alerts[k + 1].days_until_stockout_vs_lead) <= 0
    /\ Len(severity_label) = Len(alerts)
    /\ \A k \in 1..Len(alerts) :
          /\ severity_label[k] = SeverityLabel(alerts[k])
          /\ alert_export[k + 1][7] = alerts[k].days_until_stockout_vs_lead

C13_Witness ==
    /\ Len(alerts) = 2
    /\ FCmp(alerts[1].days_until_stockout_vs_lead,
            alerts[2].days_until_stockout_vs_lead) < 0
    /\ filtered_latest = <<alerts[2], alerts[1]>>
    /\ severity_label = <<"CRITICAL", "URGENT">>

RowSet(df) == {df[i] : i \in 1..Len(df)}

\* two different observations of a pair at the pair's latest date
LatestDateTie(df) ==
    \E i \in 1..Len(df) : \E j \in 1..Len(df) :
        /\ df[i] # df[j]
        /\ SamePair(df[i], df[j])
        /\ df[i].DATE = df[j].DATE
        /\ \A k \in 1..Len(df) : SamePair(df[k], df[i]) => df[k].DATE <= df[i].DATE

\* a second run of selector, calculator and classifier on the loaded
\* collection with the current filter settings yields the snapshot rows, the
\* derived metrics, the class members and the counts of the run displayed
SecondRunAgrees ==
    \A lat2 \in Latest(inv_df) :
        LET fl2 == FilteredLatest(lat2, selected_locations, selected_items)
        IN  /\ RowSet(lat2) = RowSet(latest)
            /\ RowSet(fl2) = RowSet(filtered_latest)
            /\ RowSet(SelectSeq(fl2, alerts_mask)) = RowSet(alerts)
            /\ RowSet(SelectSeq(fl2, warnings_mask)) = RowSet(warnings)
            /\ StatusCounts(fl2) = status_counts

\* C15 (as stated): for a fixed collection of observations and fixed
\* filter settings two runs yield identical snapshot rows, derived metrics
\* and Critical/Warning/Adequate outputs, also when several observations
\* share (location, item, date).
C15_Determinism == script = "ok" => SecondRunAgrees

\* C15 (amended): the same, for every collection in which no pair has two
\* different observations at its latest date.
C15_DeterminismWithoutTies ==
    (script = "ok" /\ ~LatestDateTie(inv_df)) => SecondRunAgrees

C15_Witness ==
    /\ script = "ok"
    /\ ~LatestDateTie(inv_df)
    /\ Len(inv_df) = 2
    /\ SamePair(inv_df[1], inv_df[2])
    /\ inv_df[1].DATE # inv_df[2].DATE
    /\ inv_df[1].CLOSING_STOCK # inv_df[2].CLOSING_STOCK
    /\ Len(latest) = 1
    /\ selected_locations # {}

\* the rows of df whose province is in P, in the order of df
Restrict(df, P) == LET InP(r) == r.LOCATION \in P IN SelectSeq(df, InP)

\* the position of row r in df
Pos(df, r) == CHOOSE i \in 1..Len(df) : df[i] = r

\* a run with every province selected is followed by a run with the same
\* regimens selected
RefilterStep ==
    /\ script = "ok"
    /\ script' = "ok"
    /\ selected_locations = Column(latest, "LOCATION")
    /\ selected_items' = selected_items

C17_AlertExport ==
    /\ Len(alerts) = 0 => alert_export = <<>>
    /\ Len(alerts) > 0 =>
          /\ Len(alert_export) = Len(alerts) + 1
          /\ alert_export[1] =
                <<"Province", "Treatment Regimen", "Current Stock", "Active Cases",
                  "Lead Time (Days)", "Supply Days Left", "Shortfall (Days)",
                  "TB Risk Score", "Programmatic Risk", "Recommended Order Quantity">>
          /\ \A k \in 1..Len(alerts) :
                LET row == alert_export[k + 1]
                    r   == alerts[k]
                IN  /\ Len(row) = 10
                    /\ row[1] = r.LOCATION
                    /\ row[2] = r.ITEM
                    /\ row[3] = r.CLOSING_STOCK
                    /\ row[4] = r.TB_CASES_ACTIVE
                    /\ row[5] = r.LEAD_TIME_DAYS
                    /\ row[6] = r.days_of_therapy_left
                    /\ row[7] = r.days_until_stockout_vs_lead
                    /\ row[8] = r.TB_RISK_SCORE
                    /\ row[9] = r.programmatic_risk
                    /\ row[10] = r.suggested_reorder_qty

C17_Witness ==
    /\ Len(alerts) = 2
    /\ Len(alert_export) = 3
    /\ alert_export[2][2] # alert_export[3][2]
    /\ alert_export[2][3] = 200
    /\ alert_export[3][3] = 13

Fetches == {Loaders[j] : j \in 1..Len(Loaders)}

\* C18: a run in which one of the four fetches fails ends with that
\* failure: nothing is computed in it (no snapshot, metric, count, alert or
\* export), the failed fetch was sent once and not repeated, and no fetch
\* after it was sent; a run that displays results has all four loads.
C18_HardStop ==
    /\ script = "exception" <=> raised \in Fetches
    /\ script = "exception" =>
          /\ NoOutput
          /\ raised \notin cached
          /\ queries[raised] = 1
          /\ \A j \in 1..Len(Loaders) : \A k \in 1..Len(Loaders) :
                (Loaders[j] = raised /\ j < k) => queries[Loaders[k]] = 0
    /\ script = "ok" => (raised = "none" /\ cached = Fetches)

C18_Witness ==
    /\ script = "exception"
    /\ raised = "load_providers"
    /\ Len(inv_df) = 2
    /\ latest = <<>>
    /\ queries["load_inventory"] = 0
    /\ queries["load_providers"] = 1

\* C19: when no snapshot row has both its province and its regimen
\* selected (also when there is no row at all) the run completes: both
\* lists are empty, every count is 0, there is no export, and the tab shows
\* its two "nothing to report" notices, no error.
C19_NoRowsMatch ==
    (/\ script = "ok"
     /\ \A i \in 1..Len(latest) :
           ~(latest[i].LOCATION \in selected_locations
             /\ latest[i].ITEM \in selected_items))
        => /\ raised = "none"
           /\ filtered_latest = <<>>
           /\ alerts = <<>>
           /\ warnings = <<>>
           /\ warning_cards = <<>>
           /\ status_counts = [Critical |-> 0, Warning |-> 0, Adequate |-> 0]
           /\ stockout_count = 0
           /\ alert_export = <<>>
           /\ notices = {"All Stock Levels Adequate",
                         "No items currently in warning threshold range"}

C19_Witness ==
    /\ script = "ok"
    /\ selected_locations = {}
    /\ filtered_latest = <<>>
    /\ alert_export = <<>>
    /\ "All Stock Levels Adequate" \in notices
    /\ \E i \in 1..Len(latest) : alerts_mask(latest[i])

\* the metrics of row r are the formulas applied to its numbers, with an
\* undefined days_of_therapy_left exactly under the condition undef
Propagates(r, undef) ==
    /\ r.daily_need = FDiv(FromInt(r.TB_CASES_ACTIVE), FromInt(30))
    /\ r.daily_need.neg <=> r.TB_CASES_ACTIVE < 0
    /\ r.days_of_therapy_left.nan <=> undef
    /\ ~r.days_of_therapy_left.nan =>
          /\ r.days_of_therapy_left = FDiv(FromInt(r.CLOSING_STOCK), r.daily_need)
          /\ r.days_until_stockout_vs_lead =
                FSub(r.days_of_therapy_left, FromInt(r.LEAD_TIME_DAYS))
    /\ r.days_of_therapy_left.nan => r.days_until_stockout_vs_lead.nan
    /\ r.suggested_reorder_qty =
          (IF r.stock_risk_flag
           THEN FMul(r.daily_need, FromInt(r.LEAD_TIME_DAYS + 30))
           ELSE FZero)

\* C20 (as stated): a row with negative closing_stock or negative
\* tb_cases_active raises no error and its metrics are the formulas applied
\* to the negative numbers, undefined arising only from daily_need = 0.
C20_NegativeInputs ==
    \A i \in 1..Len(latest) :
        (latest[i].CLOSING_STOCK < 0 \/ latest[i].TB_CASES_ACTIVE < 0) =>
            Propagates(latest[i], latest[i].TB_CASES_ACTIVE = 0)

\* C20 (amended): the same, undefined arising exactly when daily_need is
\* not above 0, so also for every negative tb_cases_active; a negative
\* stock with active cases gives negative days and a flagged row.
C20_NegativeInputsUndefinedBelowZero ==
    \A i \in 1..Len(latest) :
        LET r == latest[i] IN
        (r.CLOSING_STOCK < 0 \/ r.TB_CASES_ACTIVE < 0) =>
            /\ Propagates(r, r.TB_CASES_ACTIVE <= 0)
            /\ r.TB_CASES_ACTIVE <= 0 =>
                  ~r.stock_risk_flag /\ r.suggested_reorder_qty = FZero
            /\ r.TB_CASES_ACTIVE > 0 =>
                  /\ WithinRounding(r.days_of_therapy_left, r.CLOSING_STOCK,
                                    r.TB_CASES_ACTIVE)
                  /\ Negative(r.days_of_therapy_left)
                  /\ Negative(r.days_until_stockout_vs_lead)
                  /\ r.stock_risk_flag

C20_Witness ==
    /\ script = "ok"
    /\ \E i \in 1..Len(latest) :
          /\ latest[i].CLOSING_STOCK = -5
          /\ latest[i].TB_CASES_ACTIVE = 30
          /\ latest[i].LEAD_TIME_DAYS = 20
          /\ latest[i].days_of_therapy_left = FromInt(-5)
          /\ latest[i].days_until_stockout_vs_lead = FromInt(-25)
          /\ latest[i].suggested_reorder_qty = FromInt(50)

RawFields ==
    {"LOCATION", "ITEM", "DATE", "CLOSING_STOCK", "TB_CASES_ACTIVE",
     "LEAD_TIME_DAYS", "TB_RISK_SCORE"}

\* C21: the calculator leaves the loaded collection as it was loaded, the
\* same rows with the seven raw fields and no other, and the raw fields of
\* every snapshot row are those of an observation of the collection.
C21_RawDataUnchanged ==
    /\ script = "ok" => inv_df = TB_INVENTORY
    /\ \A j \in 1..Len(inv_df) : DOMAIN inv_df[j] = RawFields
    /\ \A i \in 1..Len(latest) :
          /\ InFrame(inv_df, Raw(latest[i]))
          /\ RawFields \subseteq DOMAIN latest[i]

C21_Witness ==
    /\ script = "ok"
    /\ Len(inv_df) = 2
    /\ Len(latest) = 2
    /\ "daily_need" \in DOMAIN latest[1]
    /\ "daily_need" \notin DOMAIN inv_df[1]
    /\ latest[1].stock_risk_flag
    /\ latest[1].LEAD_TIME_DAYS = 20

\* C22: a snapshot row is flagged iff its days_until_stockout_vs_lead is
\* below 0, so no row is at or above 0 and flagged: the Warning list is
\* empty and the Warning count is 0, whatever the input and the selection.
C22_WarningTierEmpty ==
    /\ \A i \in 1..Len(latest) :
          /\ latest[i].stock_risk_flag <=> Negative(latest[i].days_until_stockout_vs_lead)
          /\ ~IsWarning(latest[i])
    /\ status_counts.Warning = 0
    /\ warnings = <<>>
    /\ warning_cards = <<>>

C22_Witness ==
    /\ script = "ok"
    /\ \E i \in 1..Len(filtered_latest) :
          /\ filtered_latest[i].CLOSING_STOCK = 20
          /\ filtered_latest[i].TB_CASES_ACTIVE = 30
          /\ filtered_latest[i].LEAD_TIME_DAYS = 20
          /\ filtered_latest[i].days_of_therapy_left = FromInt(20)
          /\ ~filtered_latest[i].stock_risk_flag
    /\ status_counts = [Critical |-> 0, Warning |-> 0, Adequate |-> 1]

\* C23: the "Critical Alerts" KPI, the "Critical Stockout" status count,
\* the length of the Critical alert list and the number of rows of its
\* export are the same number.
C23_CriticalDisplaysAgree ==
    /\ stockout_count = status_counts.Critical
    /\ stockout_count = Len(alerts)
    /\ Len(alerts) > 0 => Len(alert_export) - 1 = stockout_count
    /\ Len(alerts) = 0 => alert_export = <<>>

C23_Witness ==
    /\ script = "ok"
    /\ Len(filtered_latest) = 2
    /\ stockout_count = 1
    /\ status_counts.Critical = 1
    /\ Len(alerts) = 1
    /\ Len(alert_export) = 2
    /\ \E i \in 1..2 : filtered_latest[i].days_until_stockout_vs_lead.nan

\* a rerun in which the slider moved and the two multiselects did not
ThresholdStep ==
    /\ script = "ok"
    /\ script' = "ok"
    /\ risk_threshold' # risk_threshold
    /\ selected_locations' = selected_locations
    /\ selected_items' = selected_items

\* C24: moving risk_threshold with data and filters fixed leaves the
\* classification, the Critical list, its cards and its export as they
\* were; only "High-Risk Pairs" follows it, being the number of filtered
\* rows with programmatic_risk >= risk_threshold.
C24_ThresholdIndependence ==
    [][ThresholdStep =>
          /\ UNCHANGED <<inv_df, latest, filtered_latest, stockout_count,
                         status_counts, alerts, severity_label, alert_export,
                         warnings, warning_cards, notices, provinces_kpi,
                         regimens_kpi, active_cases_kpi>>
          /\ high_risk_count' =
                Cardinality({i \in 1..Len(filtered_latest') :
                    FCmp(filtered_latest'[i].programmatic_risk,
                         FromInt(risk_threshold')) >= 0})]_vars

C24_Witness ==
    /\ script = "ok"
    /\ risk_threshold = 10
    /\ Len(filtered_latest) = 2
    /\ Len(alerts) = 1
    /\ high_risk_count = 1
    /\ \E i \in 1..2 : filtered_latest[i].programmatic_risk = FromInt(9)

\* C25: in the card order no CRITICAL card comes after an URGENT card.
C25_CriticalBeforeUrgent ==
    \A i \in 1..Len(severity_label) : \A j \in 1..Len(severity_label) :
        (i < j /\ severity_label[i] = "URGENT") => severity_label[j] # "CRITICAL"

C25_Witness ==
    /\ script = "ok"
    /\ severity_label = <<"CRITICAL", "URGENT">>
    /\ alerts[1].CLOSING_STOCK = 200
    /\ alerts[2].CLOSING_STOCK = 13
    /\ alerts[1].DATE > alerts[2].DATE

\* C26: a flagged row has daily_need above 0, a defined days_of_therapy_left
\* and, its lead time being at least 0, a suggested_reorder_qty above 0;
\* suggested_reorder_qty is a number in every snapshot row, and the fields an
\* alert card formats (days_of_therapy_left, days_until_stockout_vs_lead,
\* suggested_reorder_qty) are numbers in every row of the alert list.
C26_DefinedCardValues ==
    /\ \A i \in 1..Len(latest) :
          LET r == latest[i] IN
          /\ ~r.suggested_reorder_qty.nan
          /\ r.stock_risk_flag =>
                /\ FCmp(r.daily_need, FZero) > 0
                /\ ~r.daily_need.nan
                /\ ~r.days_of_therapy_left.nan
                /\ r.LEAD_TIME_DAYS >= 0 =>
                      (~r.suggested_reorder_qty.neg /\ Len(r.suggested_reorder_qty.m) > 0)
    /\ \A k \in 1..Len(alerts) :
          /\ alerts[k].stock_risk_flag
          /\ ~alerts[k].days_of_therapy_left.nan
          /\ ~alerts[k].days_until_stockout_vs_lead.nan
          /\ ~alerts[k].suggested_reorder_qty.nan
    /\ \A k \in 1..Len(warnings) :
          ~warnings[k].days_of_therapy_left.nan /\ ~warnings[k].suggested_reorder_qty.nan

C26_Witness ==
    /\ script = "ok"
    /\ Len(alerts) = 1
    /\ alerts[1].CLOSING_STOCK = 0
    /\ alerts[1].TB_CASES_ACTIVE = 900
    /\ alerts[1].LEAD_TIME_DAYS = 14
    /\ alerts[1].days_of_therapy_left = FZero
    /\ alerts[1].suggested_reorder_qty = FromInt(1320)

RECURSIVE ActiveCases(_, _)
\* the TB_CASES_ACTIVE of the first n rows of df, added up
ActiveCases(df, n) ==
    IF n = 0 THEN 0 ELSE ActiveCases(df, n - 1) + df[n].TB_CASES_ACTIVE

\* C27: "Provinces" and "TB Regimens" count the distinct locations and items
\* of all loaded observations, "Active Cases" adds up the whole snapshot, and
\* no rerun (filter selection or threshold change) changes these three;
\* "High-Risk Pairs" and "Critical Alerts" count rows of the filtered
\* snapshot only.
C27_KpiScopes ==
    [][script' = "ok" =>
          /\ provinces_kpi' = Cardinality({inv_df'[j].LOCATION : j \in 1..Len(inv_df')})
          /\ regimens_kpi' = Cardinality({inv_df'[j].ITEM : j \in 1..Len(inv_df')})
          /\ active_cases_kpi' = ActiveCases(latest', Len(latest'))
          /\ script = "ok" =>
                UNCHANGED <<provinces_kpi, regimens_kpi, active_cases_kpi>>
          /\ high_risk_count' =
                Cardinality({i \in 1..Len(filtered_latest') :
                    FCmp(filtered_latest'[i].programmatic_risk,
                         FromInt(risk_threshold')) >= 0})
          /\ stockout_count' =
                Cardinality({i \in 1..Len(filtered_latest') :
                    Negative(filtered_latest'[i].days_until_stockout_vs_lead)})
          /\ \A i \in 1..Len(filtered_latest') :
                /\ InFrame(latest', filtered_latest'[i])
                /\ filtered_latest'[i].LOCATION \in selected_locations'
                /\ filtered_latest'[i].ITEM \in selected_items']_vars

C27_Witness ==
    /\ script = "ok"
    /\ Len(latest) = 2
    /\ Len(filtered_latest) = 1
    /\ provinces_kpi = 2
    /\ Cardinality(selected_locations) = 1
    /\ active_cases_kpi > filtered_latest[1].TB_CASES_ACTIVE
    /\ stockout_count = 0
    /\ high_risk_count = 0
    /\ \E i \in 1..2 :
          /\ Negative(latest[i].days_until_stockout_vs_lead)
          /\ FCmp(latest[i].programmatic_risk, FromInt(risk_threshold)) >= 0

\* the snapshots obtained by filtering the loaded observations by the
\* current selection first and taking the latest row per pair afterwards
FilterFirst == Latest(FilteredLatest(inv_df, selected_locations, selected_items))

\* the filtered snapshot has the rows of every filter-first snapshot
SameAsFilterFirst == \A l \in FilterFirst : RowSet(l) = RowSet(filtered_latest)

\* no row shown is older than another loaded observation of its pair
NeverOlder ==
    \A i \in 1..Len(filtered_latest) : \A j \in 1..Len(inv_df) :
        SamePair(inv_df[j], filtered_latest[i]) =>
            inv_df[j].DATE <= filtered_latest[i].DATE

C29_LoadersMemoized ==
    [][/\ cached \subseteq cached'
       /\ \A l \in Fetches :
             /\ queries'[l] \in {0, 1}
             /\ l \in cached => queries'[l] = 0
             /\ (queries'[l] = 1 /\ raised' # l) => l \in cached'
       /\ script = "ok" =>
             /\ script' = "ok"
             /\ cached' = Fetches
             /\ queries' = NoQueries
             /\ inv_df' = inv_df
             /\ inv_df' = TB_INVENTORY'
             /\ latest' = latest
             /\ \A i \in 1..Len(filtered_latest') :
                   InFrame(inv_df, Raw(filtered_latest'[i]))]_vars

C29_Witness ==
    /\ script = "ok"
    /\ cached = Fetches
    /\ queries = NoQueries
    /\ inv_df = TB_INVENTORY
    /\ Len(latest) = 2
    /\ Len(filtered_latest) = 1
    /\ risk_threshold = 10

====
